---- MODULE Spec2Model ----
(***************************************************************************)
(* VocalHarmony, src/vocal-harmony/src/App.jsx: the App component's state  *)
(* (audioBlob, activePitches, isRecording, pitchPlayersRef), its handlers  *)
(* (togglePitch, setupPitchPlayer, playRecording, startRecording,          *)
(* stopRecording, the unmount cleanup) and the points at which an async    *)
(* handler is suspended (await Tone.start(), await player.load(url)).      *)
(*                                                                         *)
(* A handler invocation closes over the state of the render it was created *)
(* in: a suspended invocation keeps its own copies of audioBlob and        *)
(* activePitches, whatever the component state has become since.           *)
(* JavaScript Sets and Maps iterate in insertion order, so both are        *)
(* sequences without repetition here.                                      *)
(***************************************************************************)
EXTENDS Integers, Sequences, FiniteSets, TLC

\* ------------------------------------------------------------------ bounds
\* Chains ever created (new Tone.Player) in one behaviour.
MaxChains == 2
\* Handler invocations suspended on an await at the same time.
MaxTasks == 2
\* Captures that deliver a Blob in one behaviour.
MaxRecordings == 2
\* Tone.now() reads one of the values 0..MaxTime.
MaxTime == 1

\* The pitch buttons modelled, out of the grid's -12..12.
Offsets == {0, 4, 7}

\* ------------------------------------------------------------------ state
VARIABLES
  audioBlob,      \* useState(null): [id, size]; id 0 is null
  isRecording,    \* useState(false)
  recorder,       \* mediaRecorderRef's recorder: "idle", "recording", "stopping"
  nRecordings,    \* Blobs created so far (the identity of the next one)
  activePitches,  \* useState(new Set([0])), in insertion order
  pitchPlayers,   \* pitchPlayersRef.current: chain ids in the Map's insertion order
  chains,         \* every { player, pitchShift } ever created, by id
  tasks,          \* suspended invocations of togglePitch and playRecording
  mounted,        \* the component is mounted
  last            \* history: the handler step taken last

vars == <<audioBlob, isRecording, recorder, nRecordings, activePitches, pitchPlayers,
          chains, tasks, mounted, last>>

\* ---------------------------------------------------------------- helpers
NoBlob == [id |-> 0, size |-> 0]

\* if (audioBlob): a Blob is an object, truthy even when empty.
Truthy(blob) == blob.id # 0

Range(s) == {s[i] : i \in 1..Len(s)}

\* Set.prototype.has
Has(s, p) == p \in Range(s)

\* newActivePitches.delete(pitch)
SetDelete(s, p) == SelectSeq(s, LAMBDA x : x # p)

\* newActivePitches.add(pitch)
SetAdd(s, p) == IF Has(s, p) THEN s ELSE Append(s, p)

\* pitchPlayersRef.current.has(pitch)
RegistryHas(reg, chs, p) == \E i \in 1..Len(reg) : chs[reg[i]].offset = p

\* pitchPlayersRef.current.get(pitch)
RegistryGet(reg, chs, p) == CHOOSE c \in Range(reg) : chs[c].offset = p

\* pitchPlayersRef.current.delete(pitch)
RegistryDelete(reg, chs, p) == SelectSeq(reg, LAMBDA c : chs[c].offset # p)

\* pitchPlayersRef.current.set(pitch, { player, pitchShift }): a present key keeps
\* its place and gets the new value, an absent one is appended.
RegistrySet(reg, chs, p, c) ==
  IF RegistryHas(reg, chs, p)
  THEN [i \in 1..Len(reg) |-> IF chs[reg[i]].offset = p THEN c ELSE reg[i]]
  ELSE Append(reg, c)

RemoveAt(s, i) == SubSeq(s, 1, i - 1) \o SubSeq(s, i + 1, Len(s))

\* A player created with autostart, which plays as soon as it exists.
NewChainAutostart(p, blob) ==
  [offset |-> p, rec |-> blob.id,
   load |-> IF Truthy(blob) THEN "pending" ELSE "unloaded",
   playerDisposed |-> 0, shiftDisposed |-> 0, started |-> TRUE]

\* new Tone.Player() and new Tone.PitchShift({ pitch }), then player.load(url) of
\* the Blob the invocation closed over.
NewChain(p, blob) ==
  [offset |-> p, rec |-> blob.id,
   load |-> IF Truthy(blob) THEN "pending" ELSE "unloaded",
   playerDisposed |-> 0, shiftDisposed |-> 0, started |-> FALSE]

\* player.dispose(); pitchShift.dispose()
Dispose(ch) ==
  [ch EXCEPT !.playerDisposed = @ + 1, !.shiftDisposed = @ + 1]

\* player.load(audioUrl) settles: decoding an empty Blob is rejected.
LoadResult(size) == IF size > 0 THEN "loaded" ELSE "failed"

\* setActivePitches(s): a state update of an unmounted component is dropped.
SetActivePitches(s) == IF mounted THEN s ELSE activePitches

\* A handler step, as history: the step (op), its pitch, the activePitches it
\* closed over (active), the player.start calls it made (calls), how it ended
\* (outcome), the chain it created or waited for (chain) and, of a resumed
\* togglePitch, its task's follow.
Step(op, p, active, calls, outcome, c) ==
  [op |-> op, pitch |-> p, active |-> active, calls |-> calls,
   outcome |-> outcome, chain |-> c, follow |-> 0]

\* A suspended invocation: its closure (closureActive, blob), its locals (active:
\* newActivePitches of togglePitch, the Set playRecording iterates), where it
\* waits (pc, idx, chain), and, as history, what was invoked since it began
\* (follow: 0 nothing, 1 only one togglePitch of the same pitch, which has
\* returned, 2 anything else).
Task(kind, p, closureActive, newActive, blob, pc, idx, c) ==
  [kind |-> kind, pitch |-> p, closureActive |-> closureActive, active |-> newActive,
   blob |-> blob, pc |-> pc, idx |-> idx, chain |-> c, follow |-> 0]

\* The suspended invocations after togglePitch(p) was invoked and returned
\* (returned) or was suspended, or after playRecording was invoked (p = NoPitch,
\* outside the grid's -12..12).
NoPitch == 12 + 1

Followed(ts, p, returned) ==
  [i \in 1..Len(ts) |->
     [ts[i] EXCEPT !.follow =
        IF @ = 0 /\ ts[i].kind = "toggle" /\ ts[i].pitch = p /\ returned THEN 1 ELSE 2]]

Init ==
  /\ audioBlob = NoBlob
  /\ isRecording = FALSE
  /\ recorder = "idle"
  /\ nRecordings = 0
  /\ activePitches = <<0>>
  /\ pitchPlayers = <<>>
  /\ chains = <<>>
  /\ tasks = <<>>
  /\ mounted = TRUE
  /\ last = Step("init", 0, <<>>, <<>>, "ok", 0)


\* ------------------------------------------------------------ togglePitch
\* A togglePitch that leaves every chain to the next play request.
ShouldSetupLazy(blob, reg, chs, p) == FALSE

\* A togglePitch that sets a chain up without asking the registry first.
ShouldSetupUnchecked(blob, reg, chs, p) == Truthy(blob)

\* else branch, line 99: if (audioBlob && !pitchPlayersRef.current.has(pitch))
ShouldSetup(blob, reg, chs, p) == Truthy(blob) /\ ~RegistryHas(reg, chs, p)

\* A release that forgets pitchPlayersRef.current.delete(pitch).
ToggleOffRegistryKeep(reg, chs, p) == reg

\* if branch, lines 91-96: the registry after the chain of the pitch is released.
ToggleOffRegistry(reg, chs, p) ==
  IF RegistryHas(reg, chs, p) THEN RegistryDelete(reg, chs, p) ELSE reg

\* if branch, lines 91-94: the chain of the pitch, if registered, is disposed.
ToggleOffChains(reg, chs, p) ==
  IF RegistryHas(reg, chs, p)
  THEN [chs EXCEPT ![RegistryGet(reg, chs, p)] = Dispose(@)]
  ELSE chs

\* The pitch is active: delete it, release its chain, setActivePitches.
ToggleOff(p) ==
  /\ chains' = ToggleOffChains(pitchPlayers, chains, p)
  /\ pitchPlayers' = ToggleOffRegistry(pitchPlayers, chains, p)
  /\ activePitches' = SetActivePitches(SetDelete(activePitches, p))
  /\ last' = Step("toggle_off", p, activePitches, <<>>, "ok", 0)
  /\ tasks' = Followed(tasks, p, TRUE)

\* The pitch is inactive and needs a chain: setupPitchPlayer runs up to its
\* await player.load(audioUrl), and setActivePitches waits for the load.
ToggleOnSetup(p) ==
  LET c == Len(chains) + 1
      chs == Append(chains, NewChain(p, audioBlob))
  IN /\ Len(chains) < MaxChains
     /\ Len(tasks) < MaxTasks
     /\ chains' = chs
     /\ pitchPlayers' = RegistrySet(pitchPlayers, chs, p, c)
     /\ tasks' = Append(Followed(tasks, p, FALSE),
                        Task("toggle", p, activePitches, SetAdd(activePitches, p),
                             audioBlob, "load", 0, c))
     /\ last' = Step("toggle_setup", p, activePitches, <<>>, "pending", c)
     /\ UNCHANGED activePitches

\* The pitch is inactive and no chain is set up: setActivePitches at once.
ToggleOn(p) ==
  /\ activePitches' = SetActivePitches(SetAdd(activePitches, p))
  /\ last' = Step("toggle_on", p, activePitches, <<>>, "ok", 0)
  /\ tasks' = Followed(tasks, p, TRUE)
  /\ UNCHANGED <<chains, pitchPlayers>>

\* togglePitch(pitch), up to its first await or its return.
TogglePitch(p) ==
  /\ mounted
  /\ IF Has(activePitches, p)
     THEN ToggleOff(p)
     ELSE IF ShouldSetup(audioBlob, pitchPlayers, chains, p)
          THEN ToggleOnSetup(p)
          ELSE ToggleOn(p)
  /\ UNCHANGED <<audioBlob, isRecording, recorder, nRecordings, mounted>>

\* ---------------------------------------------------------- playRecording
\* A playRecording without its guard.
PlayGuardAlways(blob) == TRUE

\* line 127: if (audioBlob)
PlayGuard(blob) == Truthy(blob)

\* A forEach that reads Tone.now() anew for each player, the clock advancing.
StartTimeArgPerCall(startTime, k) == startTime + k - 1

\* line 141 and 145: the time handed to the k-th player.start of the forEach.
StartTimeArg(startTime, k) == startTime

Min(S) == CHOOSE x \in S : \A y \in S : x <= y

\* lines 134-138: the next pitch of the closed-over Set, from position `from`,
\* that has no chain in the registry; 0 when the loop runs to its end.
NextMissing(active, reg, chs, from) ==
  LET missing == {k \in from..Len(active) : ~RegistryHas(reg, chs, active[k])}
  IN IF missing = {} THEN 0 ELSE Min(missing)

\* player.start(startTime) throws on a player whose buffer is not loaded; whether
\* it throws on a disposed player is left open (onDisposed).
StartThrows(ch, onDisposed) ==
  ch.load # "loaded" \/ (onDisposed /\ ch.playerDisposed > 0)

\* lines 144-146: the calls of the forEach, in the Map's order, up to the first
\* one that throws.
StartCalls(reg, chs, startTime, onDisposed) ==
  LET bad == {k \in 1..Len(reg) : StartThrows(chs[reg[k]], onDisposed)}
      n == IF bad = {} THEN Len(reg) ELSE Min(bad)
  IN [k \in 1..n |->
        [chain |-> reg[k], offset |-> chs[reg[k]].offset,
         time |-> StartTimeArg(startTime, k), load |-> chs[reg[k]].load,
         rec |-> chs[reg[k]].rec, disposed |-> chs[reg[k]].playerDisposed > 0,
         threw |-> k \in bad]]

\* The chains after the calls: a call that did not throw started its player.
Started(chs, calls) ==
  [c \in 1..Len(chs) |->
     IF \E k \in 1..Len(calls) : calls[k].chain = c /\ ~calls[k].threw
     THEN [chs[c] EXCEPT !.started = TRUE]
     ELSE chs[c]]

\* playRecording resumed in task i, with chains chs, at position `from` of its
\* loop: it sets up the next missing chain and waits for its load, or leaves the
\* loop and starts every chain of the registry.
PlayContinue(i, chs, from) ==
  LET t == tasks[i]
      k == NextMissing(t.active, pitchPlayers, chs, from)
  IN IF k # 0
     THEN LET c == Len(chs) + 1
              chs2 == Append(chs, NewChain(t.active[k], t.blob))
          IN /\ Len(chs) < MaxChains
             /\ chains' = chs2
             /\ pitchPlayers' = RegistrySet(pitchPlayers, chs2, t.active[k], c)
             /\ tasks' = [tasks EXCEPT ![i] = Task("play", t.active[k], t.closureActive,
                                                   t.active, t.blob, "load", k, c)]
             /\ last' = Step("play_setup", t.active[k], t.active, <<>>, "pending", c)
     ELSE \E startTime \in 0..MaxTime, onDisposed \in BOOLEAN :
            LET calls == StartCalls(pitchPlayers, chs, startTime, onDisposed)
            IN /\ chains' = Started(chs, calls)
               /\ tasks' = RemoveAt(tasks, i)
               /\ last' = Step("play_start", 0, t.active, calls,
                               IF \E j \in 1..Len(calls) : calls[j].threw
                               THEN "error" ELSE "ok", 0)
               /\ UNCHANGED pitchPlayers

\* playRecording(), up to await Tone.start() or its return.
PlayRecording ==
  /\ mounted
  /\ IF PlayGuard(audioBlob)
     THEN /\ Len(tasks) < MaxTasks
          /\ tasks' = Append(Followed(tasks, NoPitch, FALSE),
                             Task("play", 0, activePitches, activePitches,
                                  audioBlob, "tone_start", 0, 0))
          /\ last' = Step("play_invoke", 0, activePitches, <<>>, "pending", 0)
     ELSE /\ last' = Step("play_noblob", 0, activePitches, <<>>, "ok", 0)
          /\ tasks' = Followed(tasks, NoPitch, FALSE)
  /\ UNCHANGED <<audioBlob, isRecording, recorder, nRecordings, activePitches,
                 pitchPlayers, chains, mounted>>

\* await Tone.start() resolves in task i.
ToneStartResolved(i) ==
  /\ i \in 1..Len(tasks)
  /\ tasks[i].kind = "play" /\ tasks[i].pc = "tone_start"
  /\ PlayContinue(i, chains, 1)
  /\ UNCHANGED <<audioBlob, isRecording, recorder, nRecordings, activePitches, mounted>>

\* A playRecording that catches the rejected load and carries on.
LoadRejectedIgnored(result) == FALSE

\* line 136: await setupPitchPlayer(pitch) throws when player.load rejected, and
\* nothing catches it: the rest of playRecording is not run.
LoadRejected(result) == result # "loaded"

\* await player.load(audioUrl) settles in task i, which resumes.
LoadSettled(i) ==
  /\ i \in 1..Len(tasks)
  /\ tasks[i].pc = "load"
  /\ LET t == tasks[i]
         result == LoadResult(t.blob.size)
         chs == [chains EXCEPT ![t.chain].load = result]
     IN IF t.kind = "toggle"
        THEN /\ chains' = chs
             /\ tasks' = RemoveAt(tasks, i)
             /\ activePitches' =
                  IF result = "loaded" THEN SetActivePitches(t.active) ELSE activePitches
             /\ last' = [Step("toggle_resume", t.pitch, t.closureActive, <<>>,
                              IF result = "loaded" THEN "ok" ELSE "error", t.chain)
                         EXCEPT !.follow = t.follow]
             /\ UNCHANGED pitchPlayers
        ELSE IF LoadRejected(result)
             THEN /\ chains' = chs
                  /\ tasks' = RemoveAt(tasks, i)
                  /\ last' = Step("play_abort", t.pitch, t.active, <<>>, "error", t.chain)
                  /\ UNCHANGED <<pitchPlayers, activePitches>>
             ELSE PlayContinue(i, chs, t.idx + 1) /\ UNCHANGED activePitches
  /\ UNCHANGED <<audioBlob, isRecording, recorder, nRecordings, mounted>>

\* ---------------------------------------------------------------- capture
Other == Step("other", 0, <<>>, <<>>, "ok", 0)

\* startRecording(), once getUserMedia has granted the microphone: the recorder
\* starts and setIsRecording(true). (A denied microphone changes nothing.)
StartRecording ==
  /\ mounted /\ ~isRecording /\ recorder = "idle"
  /\ nRecordings < MaxRecordings
  /\ recorder' = "recording"
  /\ isRecording' = TRUE
  /\ last' = Other
  /\ UNCHANGED <<audioBlob, nRecordings, activePitches, pitchPlayers, chains, tasks,
                 mounted>>

\* stopRecording()
StopRecording ==
  /\ mounted /\ isRecording /\ recorder = "recording"
  /\ recorder' = "stopping"
  /\ isRecording' = FALSE
  /\ last' = Other
  /\ UNCHANGED <<audioBlob, nRecordings, activePitches, pitchPlayers, chains, tasks,
                 mounted>>

\* ondataavailable, then onstop: the chunks (size 0: none) become the new Blob.
OnStop(size) ==
  /\ recorder = "stopping"
  /\ recorder' = "idle"
  /\ nRecordings' = nRecordings + 1
  /\ audioBlob' = IF mounted THEN [id |-> nRecordings + 1, size |-> size] ELSE audioBlob
  /\ last' = Other
  /\ UNCHANGED <<isRecording, activePitches, pitchPlayers, chains, tasks, mounted>>

\* ---------------------------------------------------------------- unmount
\* The effect's cleanup: every chain of the registry is disposed; the Map is
\* left as it is.
CleanupChains(reg, chs) ==
  [c \in 1..Len(chs) |-> IF c \in Range(reg) THEN Dispose(chs[c]) ELSE chs[c]]

Unmount ==
  /\ mounted
  /\ mounted' = FALSE
  /\ chains' = CleanupChains(pitchPlayers, chains)
  /\ last' = Step("unmount", 0, <<>>, <<>>, "ok", 0)
  /\ UNCHANGED <<audioBlob, isRecording, recorder, nRecordings, activePitches,
                 pitchPlayers, tasks>>

\* ------------------------------------------------------- getIntervalStyle
\* pitchRows: every button of the grid, -12 to +12.
Grid == -12..12

\* Math.abs
Abs(n) == IF n < 0 THEN -n ELSE n

\* The classes getIntervalStyle returns; the legend (lines 216-228) names them:
\* bg-blue-300 perfect consonances, bg-blue-100 imperfect consonances,
\* bg-red-100 dissonances; bg-white is the original pitch.
OriginalStyle == "bg-white hover:bg-gray-200"
PerfectStyle == "bg-blue-300 hover:bg-blue-400 text-blue-900"
ImperfectStyle == "bg-blue-100 hover:bg-blue-200 text-blue-900"
DissonantStyle == "bg-red-100 hover:bg-red-200 text-red-900"
ActiveStyle == "bg-green-600 hover:bg-green-700 text-white"

\* A getIntervalStyle that looks the pitch itself up, not its absolute value.
GetIntervalStyleSigned(pitch) ==
  IF pitch = 0 THEN OriginalStyle
  ELSE IF pitch \in {4, 7, 12} THEN PerfectStyle
  ELSE IF pitch \in {3, 5, 8, 9} THEN ImperfectStyle
  ELSE DissonantStyle

\* getIntervalStyle(pitch)
GetIntervalStyle(pitch) ==
  IF pitch = 0 THEN OriginalStyle
  ELSE LET absValue == Abs(pitch)
       IN IF absValue \in {4, 7, 12} THEN PerfectStyle
          ELSE IF absValue \in {3, 5, 8, 9} THEN ImperfectStyle
          ELSE DissonantStyle

\* The className of a pitch button in a render (lines 201-205): green when the
\* pitch is active, getIntervalStyle(pitch) otherwise.
RenderButton(p) ==
  /\ mounted
  /\ last' = Step("render", p, activePitches, <<>>,
                  IF Has(activePitches, p) THEN ActiveStyle ELSE GetIntervalStyle(p), 0)
  /\ UNCHANGED <<audioBlob, isRecording, recorder, nRecordings, activePitches,
                 pitchPlayers, chains, tasks, mounted>>

\* ----------------------------------------------------------- the buttons
\* A pitch button, disabled={!audioBlob}.
ClickPitch(p) == Truthy(audioBlob) /\ TogglePitch(p)

\* The Play button, disabled={!audioBlob}.
ClickPlay == Truthy(audioBlob) /\ PlayRecording

Background ==
  \/ \E i \in 1..MaxTasks : ToneStartResolved(i)
  \/ \E i \in 1..MaxTasks : LoadSettled(i)
  \/ StartRecording
  \/ StopRecording
  \/ \E size \in 0..1 : OnStop(size)
  \/ Unmount

\* The component driven through its buttons.
Next ==
  \/ \E p \in Offsets : ClickPitch(p)
  \/ ClickPlay
  \/ Background

Spec == Init /\ [][Next]_vars

\* The handlers called while no Recording exists yet: the component up to the
\* moment its first capture delivers a Blob.
NextBeforeCapture ==
  \/ \E p \in Offsets : TogglePitch(p)
  \/ PlayRecording
  \/ StartRecording
  \/ StopRecording
  \/ Unmount

SpecBeforeCapture == Init /\ [][NextBeforeCapture]_vars

\* The pitch grid of the mounted component: its buttons rendered and clicked,
\* captures, no play request.
NextGrid ==
  \/ \E p \in Grid : RenderButton(p)
  \/ \E p \in Offsets : ClickPitch(p)
  \/ \E i \in 1..MaxTasks : LoadSettled(i)
  \/ StartRecording
  \/ StopRecording
  \/ \E size \in 0..1 : OnStop(size)

SpecGrid == Init /\ [][NextGrid]_vars

\* ================================================================ claims
CallsOf(step) == {step.calls[k] : k \in 1..Len(step.calls)}

ToggleOps == {"toggle_off", "toggle_on", "toggle_setup"}

\* C1: in one play request every player.start call carries the same reference
\* time, whatever the number of chains in the registry.
C1_SameStartTime ==
  last.op = "play_start" =>
    \A a, b \in CallsOf(last) : a.time = b.time

\* C1 witness: a play request has started two chains, not at time 0.
C1_Witness ==
  /\ last.op = "play_start"
  /\ Len(last.calls) = 2
  /\ \A a \in CallsOf(last) : a.time = 1 /\ ~a.threw

\* C2: a play request issues no start while a load is pending for a chain of an
\* offset of the active set it iterated, whoever began that load.
C2_NoStartWhileLoadPending ==
  (last.op = "play_start" /\ last.calls # <<>>) =>
    \A c \in Range(pitchPlayers) :
      chains[c].offset \in Range(last.active) => chains[c].load # "pending"

\* C3: every chain that receives start from playRecording has completed a
\* successful load.
C3_StartOnlyLoaded ==
  last.op = "play_start" =>
    \A a \in CallsOf(last) : a.load = "loaded"

\* C4 as claimed: togglePitch never creates a chain.
C4_ToggleNeverCreates ==
  [][last'.op \in ToggleOps => Len(chains') = Len(chains)]_vars

\* C4 as amended: togglePitch(o) creates a chain, for o and registered under o,
\* exactly when o is inactive, a Recording exists and the registry holds no chain
\* for o; otherwise it creates none.
C4_ToggleCreatesIffMissing ==
  [][last'.op \in ToggleOps =>
       LET o == last'.pitch
           needed == /\ ~Has(activePitches, o)
                     /\ Truthy(audioBlob)
                     /\ ~RegistryHas(pitchPlayers, chains, o)
       IN IF needed
          THEN /\ Len(chains') = Len(chains) + 1
               /\ chains'[Len(chains')].offset = o
               /\ Len(chains') \in Range(pitchPlayers')
               /\ SubSeq(chains', 1, Len(chains)) = chains
          ELSE Len(chains') = Len(chains)]_vars

\* C4 witness: an offset was toggled on and then off with no play request in
\* between, and a chain was created for it (and released).
C4_Witness ==
  /\ last.op = "toggle_off"
  /\ \A c \in 1..Len(chains) : ~chains[c].started
  /\ \E c \in 1..Len(chains) :
        chains[c].offset = last.pitch /\ chains[c].playerDisposed = 1

\* C5: togglePitch(o) invoked twice in a row, the second time while the first is
\* suspended on its load, leaves the Selection Set with the membership it had
\* before the first invocation once both have completed.
C5_ToggleTwiceRestores ==
  (last.op = "toggle_resume" /\ last.outcome = "ok" /\ last.follow = 1 /\ mounted) =>
    Range(activePitches) = Range(last.active)

\* C6: a completed togglePitch(o) flips the membership of o in the Selection Set
\* and changes the membership of no other offset.
C6_ToggleFlipsOnlyItsOffset ==
  [][(/\ last'.op \in {"toggle_off", "toggle_on", "toggle_resume"}
      /\ last'.outcome = "ok"
      /\ mounted') =>
       \A b \in Offsets :
         (b \in Range(activePitches')) =
           IF b = last'.pitch THEN b \notin Range(activePitches)
                              ELSE b \in Range(activePitches)]_vars

\* C7: when a play request reaches its start step, the chains that receive start
\* are one per offset of the Selection Set at that moment, and no others.
C7_StartedEqualsSelection ==
  last.op = "play_start" =>
    /\ {a.offset : a \in CallsOf(last)} = Range(activePitches)
    /\ Len(last.calls) = Len(activePitches)

\* C8: a play request made while the Selection Set is empty issues no start and
\* does not fail.
C8_EmptySelectionStartsNothing ==
  (last.op = "play_start" /\ last.active = <<>>) =>
    (last.calls = <<>> /\ last.outcome = "ok")

PlayInvoked(op) == op \in {"play_noblob", "play_invoke"}

\* C9 as claimed: a play request made with no Recording fails.
C9_PlayWithoutRecordingFails ==
  (PlayInvoked(last.op) /\ ~Truthy(audioBlob)) => last.outcome = "error"

\* C9 as amended: a play request made with no Recording returns at once and
\* without error, issues no start, creates no chain and leaves the registry and
\* the Selection Set unchanged.
C9_PlayWithoutRecordingIsNoOp ==
  [][(PlayInvoked(last'.op) /\ ~Truthy(audioBlob)) =>
       /\ last'.outcome = "ok"
       /\ last'.calls = <<>>
       /\ Len(tasks') = Len(tasks)
       /\ UNCHANGED <<chains, pitchPlayers, activePitches>>]_vars

\* C9 witness: playRecording was invoked with no Recording, some offsets active.
C9_Witness ==
  /\ last.op = "play_noblob"
  /\ ~Truthy(audioBlob)
  /\ Len(activePitches) = 2

\* C10: once togglePitch has released the chain of an offset, the registry has no
\* entry for the offset and the chain's player and pitch shift have each been
\* disposed exactly once; no chain is ever disposed more than once.
C10_ReleasedOnce ==
  /\ last.op = "toggle_off" => ~RegistryHas(pitchPlayers, chains, last.pitch)
  /\ \A c \in 1..Len(chains) :
        /\ chains[c].playerDisposed <= 1 /\ chains[c].shiftDisposed <= 1
        /\ c \notin Range(pitchPlayers) =>
              chains[c].playerDisposed = 1 /\ chains[c].shiftDisposed = 1

\* C10 witness: a loaded chain was released by toggling its offset off, and the
\* component was unmounted afterwards.
C10_Witness ==
  /\ ~mounted
  /\ \E c \in 1..Len(chains) :
        /\ c \notin Range(pitchPlayers)
        /\ chains[c].load = "loaded"
        /\ chains[c].playerDisposed = 1
  /\ \E c \in Range(pitchPlayers) : chains[c].playerDisposed = 1

\* C11: the unmount cleanup disposes every chain of the registry and leaves the
\* registry empty.
C11_TeardownEmptiesRegistry ==
  last.op = "unmount" =>
    /\ \A c \in Range(pitchPlayers) : chains[c].playerDisposed = 1
    /\ pitchPlayers = <<>>

\* The load of the chain a suspended playRecording waits for is rejected in
\* this step.
PlayLoadFails ==
  \E i \in 1..Len(tasks) :
    /\ tasks[i].kind = "play" /\ tasks[i].pc = "load"
    /\ chains[tasks[i].chain].load = "pending"
    /\ Len(chains') >= tasks[i].chain
    /\ chains'[tasks[i].chain].load = "failed"

\* C12: when the load of a chain that a play request set up fails, the request
\* ends there: it issues no start to any chain and sets up no further chain.
C12_FailedLoadAbortsPlay ==
  [][PlayLoadFails =>
       /\ last'.calls = <<>>
       /\ last'.outcome = "error"
       /\ Len(tasks') = Len(tasks) - 1
       /\ Len(chains') = Len(chains)
       /\ \A c \in 1..Len(chains) : chains'[c].started = chains[c].started
       /\ UNCHANGED pitchPlayers]_vars

\* C12 witness: a play request was aborted by a failed load while the registry
\* held a loaded chain it could have started.
C12_Witness ==
  /\ last.op = "play_abort"
  /\ chains[last.chain].load = "failed"
  /\ \E c \in Range(pitchPlayers) :
        chains[c].load = "loaded" /\ ~chains[c].started /\ chains[c].playerDisposed = 0

\* C13: a chain whose load has failed does not remain registered.
C13_NoFailedChainRegistered ==
  \A c \in Range(pitchPlayers) : chains[c].load # "failed"

\* C14: over the grid -12..12 getIntervalStyle gives the original style for 0,
\* the perfect-consonance style for absolute values 4, 7, 12, the
\* imperfect-consonance style for 3, 5, 8, 9 and the dissonant style for every
\* other offset; an offset and its negation get the same style.
C14_IntervalStyleExact ==
  (last.op = "render" /\ ~Has(last.active, last.pitch)) =>
    /\ last.pitch = 0 => last.outcome = OriginalStyle
    /\ last.pitch \in {4, 7, 12, -4, -7, -12} => last.outcome = PerfectStyle
    /\ last.pitch \in {3, 5, 8, 9, -3, -5, -8, -9} => last.outcome = ImperfectStyle
    /\ last.pitch \in {1, 2, 6, 10, 11, -1, -2, -6, -10, -11} =>
         last.outcome = DissonantStyle
    /\ last.outcome = GetIntervalStyle(0 - last.pitch)

\* C14 witness: the button of a negative perfect consonance was rendered inactive.
C14_Witness ==
  /\ last.op = "render"
  /\ last.pitch = -12
  /\ last.outcome = PerfectStyle

\* C15: no play request issues start to a chain that has been disposed.
C15_NoStartOnDisposed ==
  last.op = "play_start" =>
    \A a \in CallsOf(last) : ~a.disposed

Live(c) == chains[c].playerDisposed = 0 /\ chains[c].shiftDisposed = 0

\* C16: whenever no toggle or play request is in flight, every offset with a live
\* chain in the registry is a member of the Selection Set.
C16_RegistryWithinSelection ==
  tasks = <<>> =>
    \A c \in Range(pitchPlayers) :
      Live(c) => chains[c].offset \in Range(activePitches)

\* C17: at most one live chain exists per offset: the registry holds each offset
\* once, and every chain that was created and not disposed is in the registry (no
\* registered chain was overwritten without being disposed).
C17_OneLiveChainPerOffset ==
  /\ \A c, d \in 1..Len(chains) :
        (c # d /\ Live(c) /\ Live(d)) => chains[c].offset # chains[d].offset
  /\ \A i, j \in 1..Len(pitchPlayers) :
        i # j => chains[pitchPlayers[i]].offset # chains[pitchPlayers[j]].offset
  /\ \A c \in 1..Len(chains) : Live(c) => c \in Range(pitchPlayers)

\* C17 witness: a chain was set up for an offset whose earlier chain had been
\* released, while another invocation was suspended.
C17_Witness ==
  /\ Len(chains) = 2
  /\ chains[1].offset = chains[2].offset
  /\ ~Live(1) /\ Live(2)
  /\ pitchPlayers = <<2>>
  /\ Len(tasks) = 2

\* C18: togglePitch issues no start: a step of togglePitch leaves the started
\* status of every chain as it was, leaves the chains of every other offset
\* untouched, and a chain it creates is not started; a chain becomes started
\* only in the start step of a play request, which issued start to it.
C18_ToggleStartsNothing ==
  [][/\ last'.op \in (ToggleOps \cup {"toggle_resume"}) =>
          /\ last'.calls = <<>>
          /\ \A c \in 1..Len(chains) :
               /\ chains'[c].started = chains[c].started
               /\ chains[c].offset # last'.pitch => chains'[c] = chains[c]
     /\ \A c \in (Len(chains) + 1)..Len(chains') : ~chains'[c].started
     /\ \A c \in 1..Len(chains) :
          (~chains[c].started /\ chains'[c].started) =>
             /\ last'.op = "play_start"
             /\ \E a \in CallsOf(last') : a.chain = c]_vars

\* C18 witness: after a play request started the chain of one offset, another
\* offset was toggled on and its chain set up, not started.
C18_Witness ==
  /\ last.op = "toggle_resume"
  /\ last.outcome = "ok"
  /\ ~chains[last.chain].started
  /\ \E c \in Range(pitchPlayers) :
        chains[c].started /\ Live(c) /\ chains[c].offset # last.pitch

\* C19: every chain a play request starts was loaded from the current Recording.
C19_StartedFromCurrentRecording ==
  last.op = "play_start" =>
    \A a \in CallsOf(last) : a.rec = audioBlob.id

\* C20: while a capture is in progress no play request is issued or issues start,
\* and no chain is created.
C20_NoPlaybackWhileRecording ==
  isRecording => last.op \notin {"play_invoke", "play_setup", "play_start", "toggle_setup"}

====
